---------------------------- MODULE Spec2Model ----------------------------
(***************************************************************************)
(* A model of docs/source/create_miniconda_release.py: one run of main()   *)
(* from the fetch of the manifest to the writing of the two documents.     *)
(*                                                                         *)
(* Text that the program takes apart or puts together (file names,         *)
(* versions, bundled-distribution identifiers) is a sequence of            *)
(* one-character strings, so that split, rsplit, slicing and formatting    *)
(* are computed as Python computes them.  Text that is only passed on      *)
(* (descriptions, operating systems, checksums) is a plain string.         *)
(***************************************************************************)
EXTENDS Integers, Sequences, FiniteSets, TLC

(***************************************************************************)
(* Text literals.                                                          *)
(***************************************************************************)
s_product_latest == <<"M", "i", "n", "i", "c", "o", "n", "d", "a", "3", "-", "l", "a", "t", "e", "s", "t", "-">>
s_product_py == <<"M", "i", "n", "i", "c", "o", "n", "d", "a", "3", "-", "p", "y">>
s_latest == <<"l", "a", "t", "e", "s", "t">>
s_info_json == <<"_", "i", "n", "f", "o", ".", "j", "s", "o", "n">>
s_python == <<"p", "y", "t", "h", "o", "n">>
s_py == <<"p", "y">>
s_sfx_win64 == <<"W", "i", "n", "d", "o", "w", "s", "-", "x", "8", "6", "_", "6", "4", ".", "e", "x", "e">>
s_sfx_win32 == <<"W", "i", "n", "d", "o", "w", "s", "-", "x", "8", "6", ".", "e", "x", "e">>
s_sfx_osx64_sh == <<"M", "a", "c", "O", "S", "X", "-", "x", "8", "6", "_", "6", "4", ".", "s", "h">>
s_sfx_osx64_pkg == <<"M", "a", "c", "O", "S", "X", "-", "x", "8", "6", "_", "6", "4", ".", "p", "k", "g">>
s_sfx_osx_arm64_sh == <<"M", "a", "c", "O", "S", "X", "-", "a", "r", "m", "6", "4", ".", "s", "h">>
s_sfx_osx_arm64_pkg == <<"M", "a", "c", "O", "S", "X", "-", "a", "r", "m", "6", "4", ".", "p", "k", "g">>
s_sfx_linux64 == <<"L", "i", "n", "u", "x", "-", "x", "8", "6", "_", "6", "4", ".", "s", "h">>
s_sfx_linux_aarch64 == <<"L", "i", "n", "u", "x", "-", "a", "a", "r", "c", "h", "6", "4", ".", "s", "h">>
s_sfx_linux_ppc64le == <<"L", "i", "n", "u", "x", "-", "p", "p", "c", "6", "4", "l", "e", ".", "s", "h">>
s_sfx_linux_s390x == <<"L", "i", "n", "u", "x", "-", "s", "3", "9", "0", "x", ".", "s", "h">>
s_v_4_12_0 == <<"4", ".", "1", "2", ".", "0">>
s_v_23_1_0 == <<"2", "3", ".", "1", ".", "0">>
s_v_4_9_2 == <<"4", ".", "9", ".", "2">>
s_f_uninstaller == <<"M", "i", "n", "i", "c", "o", "n", "d", "a", "3", "-", "u", "n", "i", "n", "s", "t", "a", "l", "l", "e", "r", "_", "4", ".", "1", "2", ".", "0", "-", "W", "i", "n", "d", "o", "w", "s", "-", "x", "8", "6", "_", "6", "4", ".", "e", "x", "e">>
s_n_linux_info == <<"l", "i", "n", "u", "x", "-", "6", "4", "_", "i", "n", "f", "o", ".", "j", "s", "o", "n">>
s_n_win_info == <<"w", "i", "n", "-", "6", "4", "_", "i", "n", "f", "o", ".", "j", "s", "o", "n">>
s_n_ppc_info == <<"l", "i", "n", "u", "x", "-", "p", "p", "c", "6", "4", "l", "e", "_", "i", "n", "f", "o", ".", "j", "s", "o", "n">>
s_n_readme == <<"R", "E", "A", "D", "M", "E", ".", "m", "d">>
s_build_dir == <<"/", "b", "u", "i", "l", "d", "/">>
s_d_libgcc_mutex == <<"_", "l", "i", "b", "g", "c", "c", "_", "m", "u", "t", "e", "x", "-", "0", ".", "1", "-", "m", "a", "i", "n", ".", "c", "o", "n", "d", "a">>
s_d_nohash == <<"p", "k", "g", "-", "1", ".", "0", "-", "n", "o", "h", "a", "s", "h", ".", "c", "o", "n", "d", "a">>
s_d_nodash == <<"b", "a", "d", "p", "k", "g", ".", "c", "o", "n", "d", "a">>
s_x_conda == <<".", "c", "o", "n", "d", "a">>
s_x_tar_bz2 == <<".", "t", "a", "r", ".", "b", "z", "2">>
s_p_ca_certificates == <<"c", "a", "-", "c", "e", "r", "t", "i", "f", "i", "c", "a", "t", "e", "s">>
s_p_openmp_mutex == <<"_", "o", "p", "e", "n", "m", "p", "_", "m", "u", "t", "e", "x">>
s_p_conda == <<"c", "o", "n", "d", "a">>
s_p_3_9_12 == <<"3", ".", "9", ".", "1", "2">>
s_p_3_10_9 == <<"3", ".", "1", "0", ".", "9">>
s_p_2022_3_29 == <<"2", "0", "2", "2", ".", "3", ".", "2", "9">>
s_p_5_1 == <<"5", ".", "1">>
s_p_h12debd9 == <<"h", "1", "2", "d", "e", "b", "d", "9">>
s_p_h966fe2a == <<"h", "9", "6", "6", "f", "e", "2", "a">>
s_p_h06a4308 == <<"h", "0", "6", "a", "4", "3", "0", "8">>
s_p_py39haa95532 == <<"p", "y", "3", "9", "h", "a", "a", "9", "5", "5", "3", "2">>
s_p_gnu == <<"g", "n", "u">>

(***************************************************************************)
(* Bounds of the model.                                                    *)
(***************************************************************************)
\* at most this many entries by which the manifest differs from BaseManifest
MaxToggle == 2

(***************************************************************************)
(* Python's str operations.                                                *)
(***************************************************************************)
Max(a, b) == IF a >= b THEN a ELSE b

\* s[i:i+len(sub)] == sub
OccursAt(s, sub, i) ==
    /\ i >= 1
    /\ i + Len(sub) - 1 <= Len(s)
    /\ \A j \in 1..Len(sub) : s[i + j - 1] = sub[j]

\* the first place of sub in s at or after i, 0 when there is none
RECURSIVE FindFrom(_, _, _)
FindFrom(s, sub, i) ==
    IF i + Len(sub) - 1 > Len(s) THEN 0
    ELSE IF OccursAt(s, sub, i) THEN i
    ELSE FindFrom(s, sub, i + 1)

\* s.find(sub) + 1
Find(s, sub) == FindFrom(s, sub, 1)

\* sub in s
Contains(s, sub) == Find(s, sub) # 0

\* the last place of sub in s at or before i, 0 when there is none
RECURSIVE RFindFrom(_, _, _)
RFindFrom(s, sub, i) ==
    IF i < 1 THEN 0
    ELSE IF OccursAt(s, sub, i) THEN i
    ELSE RFindFrom(s, sub, i - 1)

\* s.rfind(sub) + 1
RFind(s, sub) == RFindFrom(s, sub, Len(s) - Len(sub) + 1)

StartsWith(s, prefix) == OccursAt(s, prefix, 1)

EndsWith(s, suffix) == OccursAt(s, suffix, Len(s) - Len(suffix) + 1)

\* s.split(sep)
RECURSIVE Split(_, _)
Split(s, sep) ==
    LET i == Find(s, sep)
    IN  IF i = 0
        THEN <<s>>
        ELSE <<SubSeq(s, 1, i - 1)>> \o Split(SubSeq(s, i + Len(sep), Len(s)), sep)

\* s.rsplit(sep, maxsplit)
RECURSIVE RSplit(_, _, _)
RSplit(s, sep, maxsplit) ==
    LET i == RFind(s, sep)
    IN  IF maxsplit = 0 \/ i = 0
        THEN <<s>>
        ELSE RSplit(SubSeq(s, 1, i - 1), sep, maxsplit - 1)
                \o <<SubSeq(s, i + Len(sep), Len(s))>>

\* sep.join(parts)
RECURSIVE Join(_, _)
Join(parts, sep) ==
    IF Len(parts) = 0 THEN <<>>
    ELSE IF Len(parts) = 1 THEN parts[1]
    ELSE parts[1] \o sep \o Join(Tail(parts), sep)

\* s.replace(old, new)
Replace(s, old, new) == Join(Split(s, old), new)

\* s[:-n]
DropLast(s, n) == SubSeq(s, 1, Max(Len(s) - n, 0))

Digits == <<"0", "1", "2", "3", "4", "5", "6", "7", "8", "9">>

IsDigit(c) == \E d \in 1..10 : Digits[d] = c

DigitVal(c) == (CHOOSE d \in 1..10 : Digits[d] = c) - 1

\* int(s) of a run of decimal digits
RECURSIVE StrToInt(_)
StrToInt(s) ==
    IF Len(s) = 0 THEN 0
    ELSE StrToInt(SubSeq(s, 1, Len(s) - 1)) * 10 + DigitVal(s[Len(s)])

\* str(n), n >= 0
RECURSIVE IntToStr(_)
IntToStr(n) ==
    IF n < 10 THEN <<Digits[n + 1]>>
    ELSE IntToStr(n \div 10) \o <<Digits[(n % 10) + 1]>>

(***************************************************************************)
(* packaging.version.Version of a dotted release: the tuple of its         *)
(* numbers, compared component by component, a missing component being 0.  *)
(***************************************************************************)
RECURSIVE MapStrToInt(_)
MapStrToInt(parts) ==
    IF Len(parts) = 0 THEN <<>>
    ELSE <<StrToInt(parts[1])>> \o MapStrToInt(Tail(parts))

Version(s) == MapStrToInt(Split(s, <<".">>))

Component(t, i) == IF i <= Len(t) THEN t[i] ELSE 0

\* Version(a) < Version(b)
VersionLess(a, b) ==
    LET ta == Version(a)
        tb == Version(b)
        n  == Max(Len(ta), Len(tb))
    IN  \E i \in 1..n :
            /\ Component(ta, i) < Component(tb, i)
            /\ \A j \in 1..(i - 1) : Component(ta, j) = Component(tb, j)

(***************************************************************************)
(* sorted(): a stable sort.  Before(a, b) says that a's key is strictly    *)
(* before b's in the wanted order.                                         *)
(***************************************************************************)
\* The place of xs[i] in the result: after every element whose key is before
\* its own, and after the earlier elements of the same key.
Sorted(xs, Before(_, _)) ==
    LET n == Len(xs)
        Rank(i) == Cardinality({j \in 1..n :
                        \/ Before(xs[j], xs[i])
                        \/ (~Before(xs[i], xs[j]) /\ j < i)})
    IN  [k \in 1..n |-> xs[CHOOSE i \in 1..n : Rank(i) = k - 1]]

VersionAscending(a, b) == VersionLess(a, b)

VersionDescending(a, b) == VersionLess(b, a)

\* the order of plain strings of digits and dots: character by character, a
\* prefix first
CharCode(c) ==
    IF IsDigit(c) THEN 48 + DigitVal(c) ELSE 46

StrLess(a, b) ==
    \/ /\ Len(a) < Len(b)
       /\ SubSeq(b, 1, Len(a)) = a
    \/ \E i \in 1..Len(a) :
            /\ i <= Len(b)
            /\ CharCode(a[i]) < CharCode(b[i])
            /\ \A j \in 1..(i - 1) : a[j] = b[j]

(***************************************************************************)
(* Insertion-ordered dicts: a sequence of [key, value] pairs, one per key. *)
(***************************************************************************)
HasKey(d, k) == \E i \in 1..Len(d) : d[i].key = k

Get(d, k) == d[CHOOSE i \in 1..Len(d) : d[i].key = k].value

\* d[k] = v: a new key goes last, a known key keeps its place
DictSet(d, k, v) ==
    IF HasKey(d, k)
    THEN [i \in 1..Len(d) |-> IF d[i].key = k THEN [key |-> k, value |-> v] ELSE d[i]]
    ELSE Append(d, [key |-> k, value |-> v])

Keys(d) == [i \in 1..Len(d) |-> d[i].key]

(***************************************************************************)
(* sizeof_fmt.  A byte count is the sequence of its base-1024 digits,      *)
(* lowest first: TLC's integers are 32 bits wide and 1024^4 is not.  The   *)
(* float divisions by 1024.0 are exact for the counts of the model (below  *)
(* 2^53), so num after k divisions is the count over 1024^k.               *)
(***************************************************************************)
Kibi == 1024

DigitAt(n, i) == IF i >= 1 /\ i <= Len(n) THEN n[i] ELSE 0

\* abs(num) < 1024.0 after k divisions: the count is below 1024^(k+1)
BelowKibi(n, k) == \A i \in (k + 2)..Len(n) : n[i] = 0

\* 10 * n
RECURSIVE TimesTen(_, _)
TimesTen(n, carry) ==
    IF Len(n) = 0
    THEN IF carry = 0 THEN <<>> ELSE <<carry>>
    ELSE LET v == n[1] * 10 + carry
         IN  <<v % Kibi>> \o TimesTen(Tail(n), v \div Kibi)

\* floor(n / 1024^k)
RECURSIVE Shifted(_, _)
Shifted(n, k) ==
    IF Len(n) <= k THEN 0
    ELSE n[k + 1] + Kibi * Shifted(Tail(n), k)

\* "%.1f" of n / 1024^k, in tenths: the nearest tenth, a tie going to the even
\* one (the quotient is exact in binary, so printf rounds the exact value)
Tenths(n, k) ==
    LET m    == TimesTen(n, 0)
        q    == Shifted(m, k)
        top  == DigitAt(m, k)
        low  == \E i \in 1..(k - 1) : DigitAt(m, i) # 0
        half == Kibi \div 2
        up   == \/ top > half
                \/ top = half /\ (low \/ q % 2 = 1)
    IN  IF up THEN q + 1 ELSE q

\* "%3.1f" % x or "%.1f" % x: at least three characters always
FormatOneDecimal(tenths) ==
    IntToStr(tenths \div 10) \o <<".">> \o IntToStr(tenths % 10)

LoopUnits == << <<>>, <<"K", "i">>, <<"M", "i">>, <<"G", "i">> >>

RECURSIVE sizeof_fmt_from(_, _, _)
sizeof_fmt_from(num, suffix, k) ==
    IF k = Len(LoopUnits)
    THEN FormatOneDecimal(Tenths(num, k)) \o <<" ">> \o <<"Y", "i">> \o suffix
    ELSE IF BelowKibi(num, k)
    THEN FormatOneDecimal(Tenths(num, k)) \o <<" ">> \o LoopUnits[k + 1] \o suffix
    ELSE sizeof_fmt_from(num, suffix, k + 1)

sizeof_fmt(num) == sizeof_fmt_from(num, <<"B">>, 0)

(***************************************************************************)
(* datetime.date.fromtimestamp(mtime).strftime("%B %-d, %Y"), the local    *)
(* time zone being UTC: the civil date of the day mtime falls in.          *)
(***************************************************************************)
MonthNames ==
    <<"January", "February", "March", "April", "May", "June", "July",
      "August", "September", "October", "November", "December">>

DateFromTimestamp(mtime) ==
    LET z   == (mtime \div 86400) + 719468
        era == z \div 146097
        doe == z - era * 146097
        yoe == (doe - doe \div 1460 + doe \div 36524 - doe \div 146096) \div 365
        doy == doe - (365 * yoe + yoe \div 4 - yoe \div 100)
        mp  == (5 * doy + 2) \div 153
        m   == IF mp < 10 THEN mp + 3 ELSE mp - 9
    IN  [year  |-> yoe + era * 400 + (IF m <= 2 THEN 1 ELSE 0),
         month |-> m,
         day   |-> doy - (153 * mp + 2) \div 5 + 1]

StrfTime(date) == <<MonthNames[date.month], date.day, date.year>>

(***************************************************************************)
(* The fixed tables.                                                       *)
(***************************************************************************)
OPERATING_SYSTEMS == <<"Windows", "macOS", "Linux">>

\* the keys of PLATFORM_MAP, in the order of the dict
PLATFORM_IDS ==
    <<"win64", "win32", "osx64_sh", "osx64_pkg", "osx_arm64_sh", "osx_arm64_pkg",
      "linux64", "linux_aarch64", "linux_ppc64le", "linux_s390x">>

Platform(os, suffix, description) ==
    [operating_system |-> os, suffix |-> suffix, description |-> description]

\* PLATFORM_MAP as the module is loaded
PlatformTable ==
    [id \in {PLATFORM_IDS[i] : i \in 1..Len(PLATFORM_IDS)} |->
        CASE id = "win64" -> Platform("Windows", s_sfx_win64, "Windows 64-bit")
          [] id = "win32" ->
                Platform("Windows", s_sfx_win32, "Windows 32-bit")
                    @@ [miniconda_version |-> s_v_4_12_0]
          [] id = "osx64_sh" ->
                Platform("macOS", s_sfx_osx64_sh, "macOS Intel x86 64-bit bash")
          [] id = "osx64_pkg" ->
                Platform("macOS", s_sfx_osx64_pkg, "macOS Intel x86 64-bit pkg")
          [] id = "osx_arm64_sh" ->
                Platform("macOS", s_sfx_osx_arm64_sh, "macOS Apple M1 64-bit bash")
          [] id = "osx_arm64_pkg" ->
                Platform("macOS", s_sfx_osx_arm64_pkg, "macOS Apple M1 64-bit pkg")
          [] id = "linux64" -> Platform("Linux", s_sfx_linux64, "Linux 64-bit")
          [] id = "linux_aarch64" ->
                Platform("Linux", s_sfx_linux_aarch64, "Linux-aarch64 64-bit")
          [] id = "linux_ppc64le" ->
                Platform("Linux", s_sfx_linux_ppc64le, "Linux-ppc64le 64-bit")
          [] id = "linux_s390x" ->
                Platform("Linux", s_sfx_linux_s390x, "Linux-s390x 64-bit")]

(***************************************************************************)
(* get_installer_info.  A function that can raise returns the record       *)
(* [raised, ...]: raised is "none" or the exception.                       *)
(***************************************************************************)
\* s.split(sep, maxsplit)
RECURSIVE SplitMax(_, _, _)
SplitMax(s, sep, maxsplit) ==
    LET i == Find(s, sep)
    IN  IF maxsplit = 0 \/ i = 0
        THEN <<s>>
        ELSE <<SubSeq(s, 1, i - 1)>>
                \o SplitMax(SubSeq(s, i + Len(sep), Len(s)), sep, maxsplit - 1)

\* ParseDist splitting at the first two hyphens, not the last two
ParseDist_split(dist) ==
    LET parts == SplitMax(DropLast(dist, 6), <<"-">>, 2)
    IN  IF Len(parts) # 3
        THEN [raised |-> "ValueError", package |-> <<>>]
        ELSE LET pkg_split == Split(parts[3], <<"_">>)
             IN  IF Len(pkg_split) # 2
                 THEN [raised |-> "ValueError", package |-> <<>>]
                 ELSE [raised  |-> "none",
                       package |-> [name      |-> parts[1],
                                    version   |-> parts[2],
                                    hash      |-> pkg_split[1],
                                    build_num |-> pkg_split[2]]]

\* the body of the loop of get_package_list for a dist that is not skipped
ParseDist(dist) ==
    LET parts == RSplit(DropLast(dist, 6), <<"-">>, 2)
    IN  IF Len(parts) # 3
        THEN [raised |-> "ValueError", package |-> <<>>]
        ELSE LET pkg_split == Split(parts[3], <<"_">>)
             IN  IF Len(pkg_split) # 2
                 THEN [raised |-> "ValueError", package |-> <<>>]
                 ELSE [raised  |-> "none",
                       package |-> [name      |-> parts[1],
                                    version   |-> parts[2],
                                    hash      |-> pkg_split[1],
                                    build_num |-> pkg_split[2]]]

SkipDist(dist) == StartsWith(dist, <<"_">>)

\* get_package_list leaving out the identifiers it cannot parse
RECURSIVE get_package_list_lenient(_)
get_package_list_lenient(dists) ==
    IF Len(dists) = 0 THEN [raised |-> "none", packages |-> <<>>]
    ELSE IF SkipDist(dists[1]) THEN get_package_list_lenient(Tail(dists))
    ELSE LET parsed == ParseDist(dists[1])
             rest   == get_package_list_lenient(Tail(dists))
         IN  IF parsed.raised # "none" THEN rest
             ELSE [raised |-> "none", packages |-> <<parsed.package>> \o rest.packages]

RECURSIVE get_package_list(_)
get_package_list(dists) ==
    IF Len(dists) = 0 THEN [raised |-> "none", packages |-> <<>>]
    ELSE IF SkipDist(dists[1]) THEN get_package_list(Tail(dists))
    ELSE LET parsed == ParseDist(dists[1])
             rest   == get_package_list(Tail(dists))
         IN  IF parsed.raised # "none"
             THEN [raised |-> parsed.raised, packages |-> <<>>]
             ELSE IF rest.raised # "none" THEN rest
             ELSE [raised |-> "none", packages |-> <<parsed.package>> \o rest.packages]

\* the body of the loop of lines 100-107 for one entry of the release
\* directory, [name, content], content the parsed JSON object of the file
InstallerInfoStep(installer_info, file) ==
    IF ~EndsWith(file.name, s_info_json)
    THEN [raised |-> "none", installer_info |-> installer_info]
    ELSE LET info_json == file.content
         IN  IF "_dists" \notin DOMAIN info_json
             THEN [raised |-> "KeyError", installer_info |-> <<>>]
             ELSE LET pl == get_package_list(info_json["_dists"])
                  IN  IF pl.raised # "none"
                      THEN [raised |-> pl.raised, installer_info |-> <<>>]
                      ELSE LET info_dict == [packages |-> pl.packages] @@ info_json
                               key == <<info_dict["_platform"], info_dict["installer_type"]>>
                           IN  [raised         |-> "none",
                                installer_info |-> DictSet(installer_info, key, info_dict)]

\* the loop of lines 100-107 over the first n entries, in iterdir order
RECURSIVE InstallerInfoLoop(_, _)
InstallerInfoLoop(files, n) ==
    IF n = 0 THEN [raised |-> "none", installer_info |-> <<>>]
    ELSE LET done == InstallerInfoLoop(files, n - 1)
         IN  IF done.raised # "none" THEN done
             ELSE InstallerInfoStep(done.installer_info, files[n])

get_installer_info(release) == InstallerInfoLoop(release.files, Len(release.files))

(***************************************************************************)
(* get_supported_python_versions and get_release_template_vars.            *)
(***************************************************************************)
VersionToken(miniconda_version) == <<"_">> \o miniconda_version \o <<"-">>

\* py_version of a filename that passed the filter of line 127
PyVersionOf(filename) ==
    LET py_intermediate == Split(filename, s_py)[2]
        py_version      == Split(py_intermediate, <<"_">>)[1]
    IN  <<py_version[1]>> \o <<".">> \o SubSeq(py_version, 2, Len(py_version))

InSeq(x, xs) == \E i \in 1..Len(xs) : xs[i] = x

\* the loop of lines 126-133 over the first n filenames
RECURSIVE SupportedLoop(_, _, _)
SupportedLoop(filenames, miniconda_version, n) ==
    IF n = 0 THEN <<>>
    ELSE LET py_versions == SupportedLoop(filenames, miniconda_version, n - 1)
             filename    == filenames[n]
         IN  IF \/ ~Contains(filename, VersionToken(miniconda_version))
                \/ ~Contains(filename, s_py)
             THEN py_versions
             ELSE LET py_version == PyVersionOf(filename)
                  IN  IF InSeq(py_version, py_versions)
                      THEN py_versions
                      ELSE Append(py_versions, py_version)

get_supported_python_versions(miniconda_version, files_info) ==
    SupportedLoop(Keys(files_info), miniconda_version, Len(files_info))

\* Path(p).name on a POSIX system
PathName(p) ==
    LET parts == Split(p, <<"/">>) IN parts[Len(parts)]

\* lines 183-187: the version of the first package named python, when the
\* variable is not set yet
RECURSIVE FirstPython(_)
FirstPython(packages) ==
    IF Len(packages) = 0 THEN <<>>
    ELSE IF packages[1].name = s_python THEN [python_version |-> packages[1].version]
    ELSE FirstPython(Tail(packages))

\* line 189: the guard of the release date
SetsReleaseDate(info, installer_file, files_info) ==
    /\ "release_date" \notin DOMAIN info
    /\ HasKey(files_info, installer_file)

\* the body of the loop of lines 182-192 for one record
ReleaseVarsStep(release_vars, info, files_info) ==
    LET with_python ==
            IF "python_version" \notin DOMAIN release_vars
            THEN FirstPython(info.packages) @@ release_vars
            ELSE release_vars
        installer_file == PathName(info["_outpath"])
    IN  IF SetsReleaseDate(info, installer_file, files_info)
        THEN [release_date |->
                StrfTime(DateFromTimestamp(Get(files_info, installer_file).mtime))]
             @@ with_python
        ELSE with_python

\* the loop of lines 182-192 over the first n of release_info.items()
RECURSIVE ReleaseVarsLoop(_, _, _, _)
ReleaseVarsLoop(items, miniconda_version, files_info, n) ==
    IF n = 0 THEN [miniconda_version |-> miniconda_version]
    ELSE ReleaseVarsStep(ReleaseVarsLoop(items, miniconda_version, files_info, n - 1),
                         items[n].value, files_info)

\* sorted() without key=Version: the order of the strings
SortPyVersions_text(py_versions) == Sorted(py_versions, StrLess)

SortPyVersions(py_versions) == Sorted(py_versions, VersionAscending)

get_release_template_vars(miniconda_version, release_info, files_info) ==
    [py_versions |->
        SortPyVersions(get_supported_python_versions(miniconda_version, files_info))]
    @@ ReleaseVarsLoop(release_info, miniconda_version, files_info, Len(release_info))

(***************************************************************************)
(* get_miniconda_template_vars.                                            *)
(***************************************************************************)
SortPyVersionsReversed(py_versions) == Sorted(py_versions, VersionDescending)

\* the version of the release written over the version the entry has
WithMinicondaVersion_overwrite(installer_data, release_info) ==
    [miniconda_version |-> release_info.miniconda_version] @@ installer_data

\* lines 156-157: the entry of PLATFORM_MAP itself is given the version of the
\* release when it has none of its own
WithMinicondaVersion(installer_data, release_info) ==
    IF "miniconda_version" \notin DOMAIN installer_data
    THEN [miniconda_version |-> release_info.miniconda_version] @@ installer_data
    ELSE installer_data

\* lines 160-162
FullInstaller(py, installer_data) ==
    s_product_py \o py \o <<"_">> \o installer_data.miniconda_version
        \o <<"-">> \o installer_data.suffix

\* line 152
LatestInstaller(installer_data) == s_product_latest \o installer_data.suffix

\* info["platforms"][key].append(row), the list made when the key is new
AppendRow(platforms, key, row) ==
    IF HasKey(platforms, key)
    THEN DictSet(platforms, key, Append(Get(platforms, key), row))
    ELSE DictSet(platforms, key, <<row>>)

\* line 164: the versioned installer is listed only when the manifest has it
ListsInstaller(files_info, full_installer) == HasKey(files_info, full_installer)

\* the body of the loop of lines 158-173 for one runtime version
PyVersionStep(platforms, py_version, installer_data, files_info) ==
    LET py             == Replace(py_version, <<".">>, <<>>)
        full_installer == FullInstaller(py, installer_data)
        os             == installer_data.operating_system
        installer ==
            [size           |-> sizeof_fmt(Get(files_info, full_installer).size),
             hash           |-> Get(files_info, full_installer).sha256,
             full_installer |-> full_installer] @@ installer_data
    IN  IF ListsInstaller(files_info, full_installer)
        THEN AppendRow(platforms, <<os, py_version>>, installer)
        ELSE platforms

\* the loop of lines 158-173 over the first n runtime versions, for one
\* platform
RECURSIVE PyVersionLoop(_, _, _, _, _)
PyVersionLoop(py_versions, platforms, installer_data, files_info, n) ==
    IF n = 0 THEN platforms
    ELSE PyVersionStep(
            PyVersionLoop(py_versions, platforms, installer_data, files_info, n - 1),
            py_versions[n], installer_data, files_info)

\* the body of the loop of lines 151-173 for one platform; st is [raised,
\* info, platform_map], platform_map the PLATFORM_MAP the loop has changed
PlatformStep(st, id, files_info, release_info) ==
    LET installer_data   == st.platform_map[id]
        latest_installer == LatestInstaller(installer_data)
        os               == installer_data.operating_system
        \* line 154: the row is appended before the manifest is read
        appended == AppendRow(st.info.platforms, <<os, s_latest>>, installer_data)
    IN  IF ~HasKey(files_info, latest_installer)
        THEN [raised       |-> "KeyError",
              info         |-> [st.info EXCEPT !.platforms = appended],
              platform_map |-> st.platform_map]
        ELSE LET rows == Get(appended, <<os, s_latest>>)
                 row  == [hash |-> Get(files_info, latest_installer).sha256]
                            @@ rows[Len(rows)]
                 with_latest ==
                    DictSet(appended, <<os, s_latest>>,
                            [rows EXCEPT ![Len(rows)] = row])
                 updated == WithMinicondaVersion(installer_data, release_info)
                 platforms ==
                    PyVersionLoop(st.info.py_versions, with_latest, updated,
                                  files_info, Len(st.info.py_versions))
             IN  [raised       |-> "none",
                  info         |-> [st.info EXCEPT !.platforms = platforms],
                  platform_map |-> [st.platform_map EXCEPT ![id] = updated]]

\* the loop of lines 151-173 over the first n of PLATFORM_MAP.items()
RECURSIVE PlatformLoop(_, _, _, _)
PlatformLoop(n, st, files_info, release_info) ==
    IF n = 0 THEN st
    ELSE LET done == PlatformLoop(n - 1, st, files_info, release_info)
         IN  IF done.raised # "none" THEN done
             ELSE PlatformStep(done, PLATFORM_IDS[n], files_info, release_info)

\* line 149
LatestLists ==
    [i \in 1..Len(OPERATING_SYSTEMS) |->
        [key |-> <<OPERATING_SYSTEMS[i], s_latest>>, value |-> <<>>]]

get_miniconda_template_vars(files_info, release_info, platform_map) ==
    IF \/ "release_date" \notin DOMAIN release_info
       \/ "python_version" \notin DOMAIN release_info
    THEN [raised |-> "KeyError", info |-> <<>>, platform_map |-> platform_map]
    ELSE PlatformLoop(Len(PLATFORM_IDS),
            [raised |-> "none",
             info   |-> [conda_version     |-> Split(release_info.miniconda_version, <<"-">>)[1],
                         release_date      |-> release_info.release_date,
                         operating_systems |-> OPERATING_SYSTEMS,
                         py_versions       |-> SortPyVersionsReversed(release_info.py_versions),
                         python_version    |-> release_info.python_version,
                         platforms         |-> LatestLists],
             platform_map |-> platform_map],
            files_info, release_info)

\* sorted() without key=Version: the order of the strings
SortReleases_text(release_info) ==
    LET After(a, b) == StrLess(b, a) IN Sorted(Keys(release_info), After)

\* line 209
SortReleases(release_info) == Sorted(Keys(release_info), VersionDescending)

(***************************************************************************)
(* What a run reads: the manifest at FILES_URL and the directories under   *)
(* miniconda_releases/.                                                    *)
(***************************************************************************)
VersionedName(py, version, suffix) ==
    s_product_py \o py \o <<"_">> \o version \o <<"-">> \o suffix

Entry(filename, size, mtime) ==
    [key   |-> filename,
     value |-> [size |-> size, sha256 |-> <<"sha256", filename>>, mtime |-> mtime]]

\* the manifest every manifest of the model starts from: the "latest"
\* installer of each platform
BaseManifest ==
    [i \in 1..Len(PLATFORM_IDS) |->
        Entry(s_product_latest \o PlatformTable[PLATFORM_IDS[i]].suffix,
              <<0, 0, 60>>, 1675382400)]

\* the entries a manifest may have besides (drop: may lack)
TogglePool ==
    << [drop |-> FALSE,
        entry |-> Entry(VersionedName(<<"3", "9">>, s_v_23_1_0, s_sfx_linux64),
                        <<0, 512, 73>>, 1675209600)],
       [drop |-> FALSE,
        entry |-> Entry(VersionedName(<<"3", "1", "0">>, s_v_23_1_0, s_sfx_linux64),
                        <<0, 0, 0, 0, 1>>, 1675296000)],
       [drop |-> FALSE,
        entry |-> Entry(VersionedName(<<"3", "9">>, s_v_23_1_0, s_sfx_win64),
                        <<256, 1>>, 1675382400)],
       [drop |-> FALSE,
        entry |-> Entry(VersionedName(<<"3", "9">>, s_v_4_12_0, s_sfx_win32),
                        <<1023>>, 1652400000)],
       [drop |-> FALSE,
        entry |-> Entry(VersionedName(<<"3", "9">>, s_v_4_12_0, s_sfx_linux64),
                        <<0>>, 1652313600)],
       [drop |-> FALSE,
        entry |-> Entry(s_f_uninstaller, <<0, 0, 1>>, 1652313600)],
       [drop |-> TRUE,
        entry |-> Entry(s_product_latest \o s_sfx_win32, <<0, 0, 60>>, 1675382400)] >>

Manifest(toggles) ==
    LET Dropped(e) == \E i \in toggles : TogglePool[i].drop /\ TogglePool[i].entry.key = e.key
        Kept(e)    == ~Dropped(e)
        Added(t)   == ~t.drop /\ \E i \in toggles : TogglePool[i] = t
        added      == SelectSeq(TogglePool, Added)
    IN  SelectSeq(BaseManifest, Kept) \o [j \in 1..Len(added) |-> added[j].entry]

Manifests ==
    {Manifest(toggles) : toggles \in
        {T \in SUBSET (1..Len(TogglePool)) : Cardinality(T) <= MaxToggle}}

\* "<name>-<version>-<hash>_<build>.ext"
DistText(d) ==
    d.name \o <<"-">> \o d.version \o <<"-">> \o d.hash \o <<"_">> \o d.build_num \o d.ext

Dist(name, version, hash, build_num, ext) ==
    [name |-> name, version |-> version, hash |-> hash, build_num |-> build_num,
     ext |-> ext]

dist_python39 == Dist(s_python, s_p_3_9_12, s_p_h12debd9, <<"0">>, s_x_conda)
dist_python310 == Dist(s_python, s_p_3_10_9, s_p_h966fe2a, <<"0">>, s_x_conda)
dist_ca_certificates ==
    Dist(s_p_ca_certificates, s_p_2022_3_29, s_p_h06a4308, <<"1">>, s_x_conda)
dist_openmp_mutex == Dist(s_p_openmp_mutex, s_p_5_1, <<"1">>, s_p_gnu, s_x_conda)
dist_conda_tar == Dist(s_p_conda, s_v_4_12_0, s_p_py39haa95532, <<"0">>, s_x_tar_bz2)

\* the identifiers of the model that have the structure
ValidDists ==
    {dist_python39, dist_python310, dist_ca_certificates, dist_openmp_mutex,
     dist_conda_tar}

InfoJson(platform, installer_type, outpath, dists) ==
    ("_platform" :> platform) @@ ("installer_type" :> installer_type)
        @@ ("_outpath" :> outpath) @@ ("_dists" :> dists)

LinuxInfo(release) ==
    [name    |-> s_n_linux_info,
     content |-> InfoJson("linux-64", "sh",
                    s_build_dir \o VersionedName(<<"3", "9">>, release, s_sfx_linux64),
                    <<DistText(dist_python39), DistText(dist_ca_certificates),
                      s_d_libgcc_mutex, DistText(dist_openmp_mutex)>>)]

WinInfo(release) ==
    [name    |-> s_n_win_info,
     content |-> InfoJson("win-64", "exe",
                    s_build_dir \o VersionedName(<<"3", "9">>, release, s_sfx_win64),
                    <<DistText(dist_conda_tar), DistText(dist_python310)>>)]

\* no python among the packages, and an installer the manifests never list
PpcInfo(release) ==
    [name    |-> s_n_ppc_info,
     content |-> InfoJson("linux-ppc64le", "sh",
                    s_build_dir \o VersionedName(<<"3", "9">>, release, s_sfx_linux_ppc64le),
                    <<DistText(dist_ca_certificates), DistText(dist_openmp_mutex)>>)]

NoDistsInfo(release) ==
    [name    |-> s_n_win_info,
     content |-> ("_platform" :> "win-64") @@ ("installer_type" :> "exe")
                    @@ ("_outpath" :> s_build_dir
                            \o VersionedName(<<"3", "9">>, release, s_sfx_win64))]

MalformedInfo(release, dist) ==
    [name    |-> s_n_ppc_info,
     content |-> InfoJson("linux-ppc64le", "sh",
                    s_build_dir \o VersionedName(<<"3", "9">>, release, s_sfx_linux_ppc64le),
                    <<DistText(dist_python39), dist>>)]

Readme == [name |-> s_n_readme, content |-> <<>>]

\* the directory listings of the model for a release; the first is the
\* standard one
Listings(release) ==
    << <<LinuxInfo(release), WinInfo(release)>>,
       <<WinInfo(release), LinuxInfo(release)>>,
       <<Readme, LinuxInfo(release)>>,
       <<LinuxInfo(release), NoDistsInfo(release)>>,
       <<MalformedInfo(release, s_d_nohash)>>,
       <<MalformedInfo(release, s_d_nodash)>>,
       <<PpcInfo(release)>>,
       <<>> >>

\* the names of the release directories, in the order iterdir yields them
ReleaseNames == <<s_v_4_12_0, s_v_4_9_2, s_v_23_1_0>>

\* the directories dirs, all with the standard listing but odd, which has
\* the listing of the given kind
Disk(dirs, odd, kind) ==
    LET Chosen(i) == i \in dirs
        idx == SelectSeq([i \in 1..Len(ReleaseNames) |-> i], Chosen)
    IN  [j \in 1..Len(idx) |->
            [name  |-> ReleaseNames[idx[j]],
             files |-> Listings(ReleaseNames[idx[j]])[IF idx[j] = odd THEN kind ELSE 1]]]

Disks ==
    {<<>>} \cup
    {Disk(dirs, odd, kind) :
        dirs \in (SUBSET (1..Len(ReleaseNames))) \ {{}},
        odd  \in 1..Len(ReleaseNames),
        kind \in 1..Len(Listings(<<>>))}

(***************************************************************************)
(* The run of main().                                                      *)
(***************************************************************************)
VARIABLES
    pc,             \* where main() is: fetch, collect, releases, render, done, failed
    remote,         \* the manifest at FILES_URL
    disk,           \* the directories under RELEASE_DIR
    files_info,
    release_info,
    release_vars,   \* release_vars["release"]
    miniconda_vars,
    PLATFORM_MAP,   \* the module-level dict
    r,              \* the releases the loop of line 209 has gone through
    doc,            \* the documents the loop of line 218 has gone through
    out_files,      \* the two output documents: old, partial or written
    error           \* the exception that ended the run

vars == <<pc, remote, disk, files_info, release_info, release_vars, miniconda_vars,
          PLATFORM_MAP, r, doc, out_files, error>>

NoError == [kind |-> "none", at |-> "none"]

Init ==
    /\ pc = "fetch"
    /\ remote \in Manifests
    /\ disk \in Disks
    /\ files_info = <<>>
    /\ release_info = <<>>
    /\ release_vars = <<>>
    /\ miniconda_vars = <<>>
    /\ PLATFORM_MAP = PlatformTable
    /\ r = 0
    /\ doc = 0
    /\ out_files = <<"old", "old">>
    /\ error = NoError

Raise(kind, at) ==
    /\ pc' = "failed"
    /\ error' = [kind |-> kind, at |-> at]

\* lines 199-200
Fetch ==
    /\ pc = "fetch"
    /\ pc' = "collect"
    /\ files_info' = remote
    /\ UNCHANGED <<remote, disk, release_info, release_vars, miniconda_vars,
                   PLATFORM_MAP, r, doc, out_files, error>>

\* lines 199-200, the request failing
FetchFails ==
    /\ pc = "fetch"
    /\ Raise("URLError", "main")
    /\ UNCHANGED <<remote, disk, files_info, release_info, release_vars,
                   miniconda_vars, PLATFORM_MAP, r, doc, out_files>>

\* lines 202-204
CollectReleases ==
    /\ pc = "collect"
    /\ \E got \in {[i \in 1..Len(disk) |-> get_installer_info(disk[i])]} :
        \E bad \in {{i \in 1..Len(disk) : got[i].raised # "none"}} :
            IF bad # {}
            THEN /\ Raise(got[CHOOSE i \in bad : \A j \in bad : i <= j].raised,
                          "get_installer_info")
                 /\ UNCHANGED release_info
            ELSE /\ release_info' =
                        [i \in 1..Len(disk) |->
                            [key |-> disk[i].name, value |-> got[i].installer_info]]
                 /\ pc' = IF Len(disk) = 0 THEN "render" ELSE "releases"
                 /\ UNCHANGED error
    /\ UNCHANGED <<remote, disk, files_info, release_vars, miniconda_vars,
                   PLATFORM_MAP, r, doc, out_files>>

\* lines 209-213: one pass of the loop
ProcessRelease ==
    /\ pc = "releases"
    /\ \E release \in {SortReleases(release_info)[r + 1]} :
        \E template_vars \in {get_release_template_vars(release,
                                Get(release_info, release), files_info)} :
            /\ release_vars' = Append(release_vars, template_vars)
            /\ r' = r + 1
            /\ IF r = 0
               THEN \E built \in {get_miniconda_template_vars(files_info, template_vars,
                                    PLATFORM_MAP)} :
                        /\ PLATFORM_MAP' = built.platform_map
                        /\ IF built.raised # "none"
                           THEN /\ Raise(built.raised, "get_miniconda_template_vars")
                                /\ UNCHANGED miniconda_vars
                           ELSE /\ miniconda_vars' = built.info
                                /\ pc' = IF r + 1 = Len(release_info)
                                         THEN "render" ELSE "releases"
                                /\ UNCHANGED error
               ELSE /\ pc' = IF r + 1 = Len(release_info) THEN "render" ELSE "releases"
                    /\ UNCHANGED <<PLATFORM_MAP, miniconda_vars, error>>
    /\ UNCHANGED <<remote, disk, files_info, release_info, doc, out_files>>

\* RenderDoc with the output file opened (and so truncated) before the
\* template is read and rendered
RenderDoc_open_first ==
    /\ pc = "render"
    /\ \/ /\ Raise("OSError", "open output")
          /\ UNCHANGED <<doc, out_files>>
       \/ /\ \E at \in {"open template", "render", "write"} : Raise("OSError", at)
          /\ out_files' = [out_files EXCEPT ![doc + 1] = "partial"]
          /\ UNCHANGED doc
       \/ /\ out_files' = [out_files EXCEPT ![doc + 1] = "written"]
          /\ doc' = doc + 1
          /\ pc' = IF doc + 1 = Len(out_files) THEN "done" ELSE "render"
          /\ UNCHANGED error
    /\ UNCHANGED <<remote, disk, files_info, release_info, release_vars,
                   miniconda_vars, PLATFORM_MAP, r>>

\* lines 218-225: one pass of the loop, for document doc + 1 (the release
\* notes, then the download page)
RenderDoc ==
    /\ pc = "render"
    /\ \/ \* open(template_file) fails
          /\ Raise("OSError", "open template")
          /\ UNCHANGED <<doc, out_files>>
       \/ \* template.render fails
          /\ Raise("TemplateError", "render")
          /\ UNCHANGED <<doc, out_files>>
       \/ \* open(out_file, "w") fails
          /\ Raise("OSError", "open output")
          /\ UNCHANGED <<doc, out_files>>
       \/ \* f.write fails: the file has been truncated
          /\ Raise("OSError", "write")
          /\ out_files' = [out_files EXCEPT ![doc + 1] = "partial"]
          /\ UNCHANGED doc
       \/ /\ out_files' = [out_files EXCEPT ![doc + 1] = "written"]
          /\ doc' = doc + 1
          /\ pc' = IF doc + 1 = Len(out_files) THEN "done" ELSE "render"
          /\ UNCHANGED error
    /\ UNCHANGED <<remote, disk, files_info, release_info, release_vars,
                   miniconda_vars, PLATFORM_MAP, r>>

Next == Fetch \/ FetchFails \/ CollectReleases \/ ProcessRelease \/ RenderDoc

Spec == Init /\ [][Next]_vars

(***************************************************************************)
(* The properties.                                                         *)
(***************************************************************************)
\* get_miniconda_template_vars has been called / has returned
BuilderCalled == r >= 1

BuilderReturned == "platforms" \in DOMAIN miniconda_vars

\* the rows of the table under a key, none when the key is absent
Rows(key) ==
    IF HasKey(miniconda_vars.platforms, key)
    THEN Get(miniconda_vars.platforms, key)
    ELSE <<>>

PlatformIdSet == {PLATFORM_IDS[i] : i \in 1..Len(PLATFORM_IDS)}

HasRowFor(id, v) ==
    \E i \in 1..Len(Rows(<<PlatformTable[id].operating_system, v>>)) :
        LET row == Rows(<<PlatformTable[id].operating_system, v>>)[i]
        IN  /\ row.suffix = PlatformTable[id].suffix
            /\ row.description = PlatformTable[id].description

\* the pinned version of the platform when it has one, else the version of
\* the latest release
ListedVersion(id) ==
    IF "miniconda_version" \in DOMAIN PlatformTable[id]
    THEN PlatformTable[id].miniconda_version
    ELSE release_vars[1].miniconda_version

\* Miniconda3-py<MM>_<version>-<suffix>
ListedName(id, v) ==
    VersionedName(Replace(v, <<".">>, <<>>), ListedVersion(id), PlatformTable[id].suffix)

\* C1: once the latest-release table is built, for every platform of the
\* platform table and every supported runtime version v of the latest release
\* the list under (operating system, v) has a row of that platform exactly when
\* Miniconda3-py<MM>_<version>-<suffix> is a key of the manifest, <version>
\* being the platform's pinned version when it has one and the version of the
\* latest release otherwise.
C1_VersionedRowIffInManifest ==
    BuilderReturned =>
        \A id \in PlatformIdSet :
            \A i \in 1..Len(release_vars[1].py_versions) :
                LET v == release_vars[1].py_versions[i]
                IN  HasRowFor(id, v) <=> HasKey(files_info, ListedName(id, v))

\* the table is built for a release other than the pinned one, the pinned
\* win32 installer is listed, and some versioned installer is absent
C1_Witness ==
    /\ BuilderReturned
    /\ release_vars[1].miniconda_version # PlatformTable["win32"].miniconda_version
    /\ \E i \in 1..Len(release_vars[1].py_versions) :
            /\ HasRowFor("win32", release_vars[1].py_versions[i])
            /\ ~HasRowFor("linux_s390x", release_vars[1].py_versions[i])

\* the descriptions of the rows under (os, "latest")
LatestDescriptions(os) ==
    [i \in 1..Len(Rows(<<os, s_latest>>)) |-> Rows(<<os, s_latest>>)[i].description]

\* the descriptions of the platforms of an operating system, in table order
PlatformDescriptions(os) ==
    LET OfOs(id) == PlatformTable[id].operating_system = os
        ids == SelectSeq(PLATFORM_IDS, OfOs)
    IN  [i \in 1..Len(ids) |-> PlatformTable[ids[i]].description]

\* C2: whatever the manifest holds, the call of the table builder (made
\* with the release date and the runtime version of the latest release known)
\* completes, and the list under (operating system, "latest") holds one row
\* for each platform of that operating system, in table order.
C2_LatestRowAlwaysPresent ==
    (/\ BuilderCalled
     /\ "release_date" \in DOMAIN release_vars[1]
     /\ "python_version" \in DOMAIN release_vars[1])
    => /\ BuilderReturned
       /\ \A i \in 1..Len(OPERATING_SYSTEMS) :
            LatestDescriptions(OPERATING_SYSTEMS[i])
                = PlatformDescriptions(OPERATING_SYSTEMS[i])

\* the metadata records main() holds
CollectedRecords ==
    UNION {{release_info[i].value[j].value : j \in 1..Len(release_info[i].value)} :
                i \in 1..Len(release_info)}

\* the record has a package with exactly the fields of the identifier d
ParsedAs(info, d) ==
    InSeq([name |-> d.name, version |-> d.version, hash |-> d.hash,
           build_num |-> d.build_num], info.packages)

\* C3 as stated: every valid identifier "<name>-<version>-<hash>_<build>.ext"
\* in a record's _dists, whatever its name and extension, has a package with
\* exactly its four fields in the record's package list.
C3_EveryValidIdentifierParsed ==
    \A info \in CollectedRecords :
        \A d \in ValidDists :
            InSeq(DistText(d), info["_dists"]) => ParsedAs(info, d)

\* C3 as amended: every valid identifier "<name>-<version>-<hash>_<build>.conda"
\* whose name does not start with an underscore has a package with exactly
\* its four fields in the package list; an identifier that starts with an
\* underscore has no package in it.
C3_CondaIdentifierParsed ==
    \A info \in CollectedRecords :
        \A d \in ValidDists :
            InSeq(DistText(d), info["_dists"]) =>
                /\ (d.ext = s_x_conda /\ d.name[1] # "_") => ParsedAs(info, d)
                /\ d.name[1] = "_" =>
                        \A i \in 1..Len(info.packages) : info.packages[i].name # d.name

\* a record with an identifier whose name has hyphens, parsed, and one that
\* starts with an underscore, skipped
C3_Witness ==
    \E info \in CollectedRecords :
        /\ InSeq(DistText(dist_ca_certificates), info["_dists"])
        /\ ParsedAs(info, dist_ca_certificates)
        /\ InSeq(DistText(dist_openmp_mutex), info["_dists"])

\* the release metadata files on disk
MetadataFiles ==
    UNION {{disk[i].files[j].content : j \in
                {k \in 1..Len(disk[i].files) : EndsWith(disk[i].files[k].name, s_info_json)}} :
                i \in 1..Len(disk)}

\* text is name-version-hash_buildnum: three fields at the last two hyphens,
\* the last of them two fields at its one underscore
IsNameVersionHashBuild(text) ==
    /\ Len(RSplit(text, <<"-">>, 2)) = 3
    /\ Len(Split(RSplit(text, <<"-">>, 2)[3], <<"_">>)) = 2

\* the identifier is name-version-hash_buildnum followed by an extension
HasStructure(dist) ==
    \E ext \in {s_x_conda, s_x_tar_bz2} :
        /\ EndsWith(dist, ext)
        /\ IsNameVersionHashBuild(DropLast(dist, Len(ext)))

Untouched == out_files = <<"old", "old">>

\* the run raised before anything was rendered
FailedCollecting ==
    /\ pc \in {"fetch", "collect", "failed"}
    /\ pc = "failed" => error.at \in {"main", "get_installer_info"}
    /\ Untouched

\* C4 as stated: when a metadata file lacks _dists or holds an identifier
\* without the name-version-hash_buildnum structure, the run ends with a
\* raised error and no output document is written.
C4_MalformedAlwaysFatal ==
    (\E content \in MetadataFiles :
        \/ "_dists" \notin DOMAIN content
        \/ \E i \in 1..Len(content["_dists"]) : ~HasStructure(content["_dists"][i]))
    => FailedCollecting

\* C4 as amended: when a metadata file lacks _dists or holds an identifier
\* that does not start with an underscore and, its last six characters taken
\* off, does not have the name-version-hash_buildnum structure, the run ends
\* with a raised error and no output document is written.  (Stated the
\* other way round: a run that got past the collection, or touched an output
\* document, read no such file.)
C4_MalformedFatalUnlessSkipped ==
    ~FailedCollecting =>
        \A content \in MetadataFiles :
            /\ "_dists" \in DOMAIN content
            /\ \A i \in 1..Len(content["_dists"]) :
                    \/ content["_dists"][i][1] = "_"
                    \/ IsNameVersionHashBuild(DropLast(content["_dists"][i], 6))

\* a run ended by an identifier without the underscore of hash_buildnum
C4_Witness ==
    /\ pc = "failed"
    /\ error = [kind |-> "ValueError", at |-> "get_installer_info"]
    /\ \E content \in MetadataFiles :
            "_dists" \in DOMAIN content /\ InSeq(s_d_nohash, content["_dists"])

\* C5 as stated: a run ends with both output documents written or neither;
\* the release notes rewritten and the download page not is never the final
\* state of a failed run.
C5_BothOrNeither ==
    pc \in {"done", "failed"} =>
        out_files \in {<<"old", "old">>, <<"written", "written">>}

\* C5 as amended: a run that fails before the release notes are opened for
\* writing (manifest fetch, metadata collection, building the variables,
\* reading or rendering the first template, opening the first output) leaves
\* both documents untouched and a run that completes has written both; the
\* download page is touched only after the release notes are fully written,
\* so a run that fails later ends with the release notes rewritten (or cut
\* short by their own failed write) and the download page not written.
C5_NotesBeforePage ==
    /\ pc = "done" => out_files = <<"written", "written">>
    /\ (/\ pc = "failed"
        /\ \/ error.at \in {"main", "get_installer_info", "get_miniconda_template_vars"}
           \/ doc = 0 /\ error.at \in {"open template", "render", "open output"})
       => Untouched
    /\ out_files[2] # "old" => out_files[1] = "written"
    /\ pc = "failed" => out_files[2] # "written"

\* a failed run with the release notes rewritten and the download page not
C5_Witness ==
    /\ pc = "failed"
    /\ out_files = <<"written", "old">>

\* the place after a run of digits that starts at i
RECURSIVE DigitsEnd(_, _)
DigitsEnd(s, i) == IF i <= Len(s) /\ IsDigit(s[i]) THEN DigitsEnd(s, i + 1) ELSE i

\* the versions of the py<digits>_ markers of a filename: the first digit is
\* the major number, the digits after it the minor
MarkerVersions(filename) ==
    {<<filename[i + 2]>> \o <<".">> \o SubSeq(filename, i + 3, DigitsEnd(filename, i + 2) - 1) :
        i \in {k \in 1..Len(filename) :
                /\ OccursAt(filename, s_py, k)
                /\ DigitsEnd(filename, k + 2) >= k + 4
                /\ OccursAt(filename, <<"_">>, DigitsEnd(filename, k + 2))}}

\* the versions of the markers of the manifest's filenames that hold the
\* version token of the release
MarkedVersions(miniconda_version) ==
    UNION {MarkerVersions(files_info[i].key) :
            i \in {k \in 1..Len(files_info) :
                    Contains(files_info[k].key,
                             <<"_">> \o miniconda_version \o <<"-">>)}}

MajorOf(v) == StrToInt(SubSeq(v, 1, Find(v, <<".">>) - 1))

MinorOf(v) == StrToInt(SubSeq(v, Find(v, <<".">>) + 1, Len(v)))

\* C6: the supported runtime versions of every release gone through are
\* exactly the versions of the py<digits>_ markers of the manifest filenames
\* that hold _<version>-, each listed once, in ascending order of (major,
\* minor).
C6_SupportedVersions ==
    \A i \in 1..Len(release_vars) :
        LET py_versions == release_vars[i].py_versions
        IN  /\ {py_versions[j] : j \in 1..Len(py_versions)}
                    = MarkedVersions(release_vars[i].miniconda_version)
            /\ \A j, k \in 1..Len(py_versions) :
                    j < k =>
                        \/ MajorOf(py_versions[j]) < MajorOf(py_versions[k])
                        \/ /\ MajorOf(py_versions[j]) = MajorOf(py_versions[k])
                           /\ MinorOf(py_versions[j]) < MinorOf(py_versions[k])

\* a release with 3.9 and 3.10, in a manifest that has files of another
\* release or without a marker too
C6_Witness ==
    /\ \E i \in 1..Len(release_vars) :
            release_vars[i].py_versions = << <<"3", ".", "9">>, <<"3", ".", "1", "0">> >>
    /\ Len(files_info) > Len(BaseManifest)

AllUnits ==
    << <<>>, <<"K", "i">>, <<"M", "i">>, <<"G", "i">>, <<"T", "i">>, <<"P", "i">>,
       <<"E", "i">>, <<"Z", "i">>, <<"Y", "i">> >>

\* the smallest k with n / 1024^k < 1024
UnitExponent(n) == CHOOSE k \in 0..Len(n) : BelowKibi(n, k) /\ \A j \in 0..(k - 1) : ~BelowKibi(n, j)

\* n / 1024^k with one decimal place and the k-th unit of B, KiB, ..., YiB
SizeAsClaimed(n) ==
    FormatOneDecimal(Tenths(n, UnitExponent(n))) \o <<" ">>
        \o AllUnits[UnitExponent(n) + 1] \o <<"B">>

\* the rows of the table that carry a size
SizedRows ==
    UNION {{miniconda_vars.platforms[i].value[j] :
                j \in {k \in 1..Len(miniconda_vars.platforms[i].value) :
                        "size" \in DOMAIN miniconda_vars.platforms[i].value[k]}} :
            i \in 1..Len(miniconda_vars.platforms)}

\* C7: the size of every versioned row is the byte count of its file divided
\* by 1024^k, with one decimal place, followed by the k-th unit of B, KiB,
\* MiB, GiB, TiB, PiB, EiB, ZiB, YiB, k the smallest exponent for which the
\* quotient is below 1024.
C7_SizeUnits ==
    BuilderReturned =>
        \A row \in SizedRows :
            row.size = SizeAsClaimed(Get(files_info, row.full_installer).size)

\* the (major, minor, patch) of a is below that of b
NumericallyBelow(a, b) ==
    LET na == Version(a)
        nb == Version(b)
    IN  \/ na[1] < nb[1]
        \/ na[1] = nb[1] /\ na[2] < nb[2]
        \/ na[1] = nb[1] /\ na[2] = nb[2] /\ na[3] < nb[3]

\* C8: the releases gone through so far are, in strictly descending numeric
\* order, the greatest of the release directories, and the latest-release
\* table is built from the greatest release.
C8_ReleasesDescending ==
    /\ \A i, j \in 1..Len(release_vars) :
            i < j => NumericallyBelow(release_vars[j].miniconda_version,
                                      release_vars[i].miniconda_version)
    /\ \A i \in 1..Len(release_vars) :
            \A k \in 1..Len(release_info) :
                \/ \E j \in 1..Len(release_vars) :
                        release_vars[j].miniconda_version = release_info[k].key
                \/ NumericallyBelow(release_info[k].key, release_vars[i].miniconda_version)
    /\ BuilderReturned =>
            \A k \in 1..Len(release_info) :
                ~NumericallyBelow(miniconda_vars.conda_version, release_info[k].key)

\* the three releases of the example gone through, the table built
C8_Witness ==
    /\ BuilderReturned
    /\ [i \in 1..Len(release_vars) |-> release_vars[i].miniconda_version]
            = <<s_v_23_1_0, s_v_4_12_0, s_v_4_9_2>>
    /\ Keys(release_info) = <<s_v_4_12_0, s_v_4_9_2, s_v_23_1_0>>

\* C9: the release date of every release gone through is that of the first
\* of its records, in iteration order, whose output filename is a key of the
\* manifest; a later such record does not change it.
C9_FirstRecordSetsDate ==
    \A i \in 1..Len(release_vars) :
        LET items == Get(release_info, release_vars[i].miniconda_version)
            listed == {j \in 1..Len(items) :
                        HasKey(files_info, PathName(items[j].value["_outpath"]))}
            first == CHOOSE j \in listed : \A k \in listed : j <= k
        IN  listed # {} =>
                release_vars[i].release_date
                    = StrfTime(DateFromTimestamp(
                        Get(files_info, PathName(items[first].value["_outpath"])).mtime))

\* C10: a call of the table builder leaves PLATFORM_MAP as it was when the
\* module was loaded.
C10_PlatformMapUnchanged == PLATFORM_MAP = PlatformTable

====
